---- MODULE Spec2Model ----
(***************************************************************************)
(* A model of examples/agents/python_agent.py: the defensive agent of the  *)
(* mutation simulator.  The process loads its memory, then reads one       *)
(* observation per line of stdin, decides (choose_action), saves the       *)
(* memory and prints the action.                                           *)
(*                                                                         *)
(* Python values are modelled as follows.                                  *)
(*   - a dict with string keys is a function whose DOMAIN is the set of    *)
(*     keys present; the value of the variable `memory`, which may be a    *)
(*     dict or (when the memory file holds some other JSON value) a list,  *)
(*     is tagged: [type |-> "dict", items |-> f];                          *)
(*   - `neighbors` is an ordered dict: a sequence of                       *)
(*     [dir |-> d, info |-> i] entries with distinct d, in iteration       *)
(*     order; an info is a dict with or without the key "energy";          *)
(*   - a line of stdin is [text |-> "json", value |-> v] when json.loads   *)
(*     accepts it (v the decoded object) and [text |-> "garbage"] when not;*)
(*   - the memory file is [exists |-> FALSE] or                            *)
(*     [exists |-> TRUE, text |-> t]; t is a JSON text (see json_dump) or  *)
(*     a text that json.load rejects (see Unparsable).                     *)
(***************************************************************************)
EXTENDS Integers, Sequences, FiniteSets

VARIABLES
    pc,           \* position of main: "load", "read", "decide", "save", "print", "except", "done"
    stdin,        \* every line of the input stream, in order
    nread,        \* number of lines of stdin the for loop has consumed
    world_state,  \* main's local world_state (the decoded line)
    memory,       \* main's local memory; updated_memory is the same object (choose_action mutates in place)
    action,       \* main's local action
    err,          \* the message str(e) of the exception caught at line 88
    disk,         \* the content of MEMORY_FILE
    stdout,       \* the actions printed (and flushed), in order
    saved,        \* history: the latest call of save_memory, [turn |-> the line it followed, outcome |-> how it went]
    previous      \* history: how the process run before this one ended (None in the first process)

vars == <<pc, stdin, nread, world_state, memory, action, err, disk, stdout, saved, previous>>

----------------------------------------------------------------------------
(* Bounds of the model *)

MaxLines == 3
MaxEnergy == 11
RingTurns == 22

(* Program constants *)

Capacity == 20

----------------------------------------------------------------------------
(* Python values *)

EmptyDict == [k \in {} |-> 0]

PyDict(f) == [type |-> "dict", items |-> f]

PyList(s) == [type |-> "list", items |-> s]

None == EmptyDict

\* dict.get(key, default)
get(d, key, default) == IF key \in DOMAIN d THEN d[key] ELSE default

\* d[key] = value
set(d, key, value) == [k \in DOMAIN d \cup {key} |-> IF k = key THEN value ELSE d[k]]

\* seq[-n:]
last(seq, n) == IF Len(seq) <= n THEN seq ELSE SubSeq(seq, Len(seq) - n + 1, Len(seq))

\* seq[:20] in place of seq[-20:]
first20(seq) == IF Len(seq) <= Capacity THEN seq ELSE SubSeq(seq, 1, Capacity)

\* seq[-20:]
last20(seq) == last(seq, Capacity)

----------------------------------------------------------------------------
(* JSON texts of the memory file *)

MemoryKeys == <<"turns_played", "positions_visited", "replications_made",
                "emergency_replications", "defensive_attacks", "peaceful_rests">>

\* json.dump that leaves out the members that are not numbers
json_dump_numbers(d) ==
    [json |-> "object",
     members |-> {<<k, d[k]>> : k \in DOMAIN d \ {"positions_visited"}}]

\* json.dump of a dict: one member, a key/value pair, for every key of the
\* dict, whatever the key.  A dict here has no order of keys, so the text is
\* taken up to the order of its members.
json_dump(d) ==
    [json |-> "object", members |-> {<<k, d[k]>> : k \in DOMAIN d}]

\* json.load: the Python value of a JSON text (defined for texts that parse)
json_load(t) ==
    IF t.json = "object"
    THEN PyDict([k \in {m[1] : m \in t.members} |->
                    (CHOOSE m \in t.members : m[1] = k)[2]])
    ELSE PyList(t.elements)

\* a text json.load rejects: the empty file that open(MEMORY_FILE, 'w')
\* leaves when nothing is written after it, a text cut short, or any other
\* text that is not JSON
Unparsable == [json |-> "invalid"]

json_parses(t) == t.json \in {"object", "array"}

----------------------------------------------------------------------------
(* Memory store *)

\* load_memory that never finds the file: every process starts from {}
load_memory_empty(file) == PyDict(EmptyDict)

\* lines 15-20
load_memory(file) ==
    IF file.exists /\ json_parses(file.text) THEN json_load(file.text) ELSE PyDict(EmptyDict)

\* how a call of save_memory can go: the text is written; open() raises
\* (no directory, no permission); open() succeeds, which empties the file,
\* and json.dump or the write of its text raises (file size limit, disk
\* full, a value json.dump rejects).  The bare except hides the last two.
SaveOutcomes == {"written", "open_fails", "write_fails"}

\* lines 22-27: the file after save_memory(memory), by outcome
save_memory(file, mem, outcome) ==
    IF outcome = "open_fails" THEN file
    ELSE IF outcome = "write_fails" THEN [exists |-> TRUE, text |-> Unparsable]
    ELSE [exists |-> TRUE, text |-> json_dump(mem.items)]

----------------------------------------------------------------------------
(* Decision engine: choose_action(world_state, memory) *)

\* lines 35-38 with the key of line 35's get mistyped: the count restarts
bookkeeping_typo(items, position) ==
    LET m1 == set(items, "turns_played", 0 + 1)
        m2 == set(m1, "positions_visited", get(m1, "positions_visited", <<>>))
        m3 == set(m2, "positions_visited", Append(m2["positions_visited"], position))
    IN  set(m3, "positions_visited", last20(m3["positions_visited"]))

\* lines 35-38: the bookkeeping done before any branch
bookkeeping(items, position) ==
    LET m1 == set(items, "turns_played", get(items, "turns_played", 0) + 1)
        m2 == set(m1, "positions_visited", get(m1, "positions_visited", <<>>))
        m3 == set(m2, "positions_visited", Append(m2["positions_visited"], position))
    IN  set(m3, "positions_visited", last20(m3["positions_visited"]))

\* memory[counter] = 0 + 1: the old count is not read
increment_reset(items, counter) == set(items, counter, 0 + 1)

\* memory[counter] = memory.get(counter, 0) + 1
increment(items, counter) == set(items, counter, get(items, counter, 0) + 1)

\* line 41 without its condition: every neighbor counts
threats_all(neighbors, my_energy) ==
    Cardinality({i \in 1..Len(neighbors) : neighbors[i].info["energy"] >= 0})

\* line 41: the number of neighbors with energy >= our energy
threats(neighbors, my_energy) ==
    Cardinality({i \in 1..Len(neighbors) : neighbors[i].info["energy"] >= my_energy})

\* lines 57-58 with my_energy + 2 for my_energy - 2
threatening_neighbors_plus(neighbors, my_energy) ==
    SelectSeq(neighbors, LAMBDA n : n.info["energy"] > 0 /\ n.info["energy"] >= my_energy + 2)

\* lines 57-58: the neighbors still threatening, in the order of neighbors
threatening_neighbors(neighbors, my_energy) ==
    SelectSeq(neighbors, LAMBDA n : n.info["energy"] > 0 /\ n.info["energy"] >= my_energy - 2)

\* lines 60-61 returning the last key of least energy
target_dir_last(tn) ==
    LET i == CHOOSE i \in 1..Len(tn) :
                 /\ \A j \in 1..Len(tn) : tn[i].info["energy"] <= tn[j].info["energy"]
                 /\ \A j \in (i + 1)..Len(tn) : tn[j].info["energy"] > tn[i].info["energy"]
    IN  tn[i].dir

\* lines 60-61: min(keys, key = energy) returns the first key of least energy
target_dir(tn) ==
    LET i == CHOOSE i \in 1..Len(tn) :
                 /\ \A j \in 1..Len(tn) : tn[i].info["energy"] <= tn[j].info["energy"]
                 /\ \A j \in 1..(i - 1) : tn[j].info["energy"] > tn[i].info["energy"]
    IN  tn[i].dir

\* line 44 with > for >=
emergency_gt(neighbors, my_energy) == threats(neighbors, my_energy) > 2 /\ my_energy <= 4

\* line 44 requiring some energy: 0 < my_energy <= 4
emergency_nonzero(neighbors, my_energy) ==
    threats(neighbors, my_energy) >= 2 /\ 0 < my_energy /\ my_energy <= 4

\* line 44
emergency(neighbors, my_energy) == threats(neighbors, my_energy) >= 2 /\ my_energy <= 4

\* line 51 with > for >=
safe_growth_gt(my_energy) == my_energy > 10

\* line 51
safe_growth(my_energy) == my_energy >= 10

\* lines 44-69 with the rest of line 50 counted as a peaceful rest
decide_rest_counted(neighbors, my_energy, items) ==
    IF emergency(neighbors, my_energy)
    THEN IF my_energy >= 3
         THEN <<[action |-> "replicate"], increment(items, "emergency_replications")>>
         ELSE <<[action |-> "rest"], increment(items, "peaceful_rests")>>
    ELSE IF safe_growth(my_energy)
    THEN <<[action |-> "replicate"], increment(items, "replications_made")>>
    ELSE IF threats(neighbors, my_energy) > 0
    THEN IF threatening_neighbors(neighbors, my_energy) # <<>>
         THEN <<[action |-> "attack",
                 target |-> target_dir(threatening_neighbors(neighbors, my_energy))],
                increment(items, "defensive_attacks")>>
         ELSE <<[action |-> "rest"], items>>
    ELSE <<[action |-> "rest"], increment(items, "peaceful_rests")>>

\* lines 44-69: the branch taken, as <<action, memory items>>
decide(neighbors, my_energy, items) ==
    IF emergency(neighbors, my_energy)
    THEN IF my_energy >= 3
         THEN <<[action |-> "replicate"], increment(items, "emergency_replications")>>
         ELSE <<[action |-> "rest"], items>>
    ELSE IF safe_growth(my_energy)
    THEN <<[action |-> "replicate"], increment(items, "replications_made")>>
    ELSE IF threats(neighbors, my_energy) > 0
    THEN IF threatening_neighbors(neighbors, my_energy) # <<>>
         THEN <<[action |-> "attack",
                 target |-> target_dir(threatening_neighbors(neighbors, my_energy))],
                increment(items, "defensive_attacks")>>
         ELSE <<[action |-> "rest"], items>>
    ELSE <<[action |-> "rest"], increment(items, "peaceful_rests")>>

Returned(a, m) == [raised |-> FALSE, action |-> a, memory |-> m]

Raised(msg, m) == [raised |-> TRUE, error |-> msg, memory |-> m]

\* The outcome of choose_action: the pair returned, or the exception raised,
\* and the memory object as the call leaves it (it is mutated in place).
choose_action(ws, mem) ==
    IF "neighbors" \notin DOMAIN ws THEN Raised("'neighbors'", mem)
    ELSE IF "energy" \notin DOMAIN ws THEN Raised("'energy'", mem)
    ELSE IF "position" \notin DOMAIN ws THEN Raised("'position'", mem)
    ELSE IF mem.type # "dict" THEN Raised("'list' object has no attribute 'get'", mem)
    ELSE LET booked == bookkeeping(mem.items, ws["position"])
         IN  IF \E i \in 1..Len(ws["neighbors"]) : "energy" \notin DOMAIN ws["neighbors"][i].info
             THEN Raised("'energy'", PyDict(booked))
             ELSE LET d == decide(ws["neighbors"], ws["energy"], booked)
                  IN  Returned(d[1], PyDict(d[2]))

----------------------------------------------------------------------------
(* Inputs: lines of stdin and contents of the memory file *)

Nb(d, e) == [dir |-> d, info |-> [energy |-> e]]

Obs(p, e, nb) == [text |-> "json", value |-> [position |-> p, energy |-> e, neighbors |-> nb]]

Garbage == [text |-> "garbage"]

\* an observation without the key "neighbors"
NoNeighbors == [text |-> "json", value |-> [position |-> 0, energy |-> 5]]

\* an observation one of whose neighbors has no "energy"
NoEnergy == [text |-> "json",
             value |-> [position |-> 1, energy |-> 5,
                        neighbors |-> <<Nb("N", 5), [dir |-> "S", info |-> EmptyDict]>>]]

Malformed == {Garbage, NoNeighbors, NoEnergy}

\* one observation or more for every branch of choose_action
Lines ==
    { Obs(0, 3, <<Nb("N", 5), Nb("S", 3)>>),
      Obs(1, 2, <<Nb("N", 5), Nb("S", 2)>>),
      Obs(0, 10, <<Nb("N", 10), Nb("S", 11)>>),
      Obs(1, 5, <<Nb("N", 5), Nb("S", 3)>>),
      Obs(0, 5, <<Nb("S", 5), Nb("N", 5)>>),
      Obs(1, 0, <<Nb("N", 0)>>),
      Obs(0, 1, <<>>),
      Obs(1, 6, <<Nb("N", 4)>>) } \cup Malformed

Directions == {"N", "S"}

Energies == 0..MaxEnergy

\* the neighbors maps of at most two entries, in every iteration order
NeighborMaps ==
    {<<>>}
    \cup {<<Nb(d, e)>> : d \in Directions, e \in Energies}
    \cup {<<Nb(d[1], e[1]), Nb(d[2], e[2])>> :
             d \in {x \in Directions \X Directions : x[1] # x[2]}, e \in Energies \X Energies}

\* every observation within the bounds
AllLines == {Obs(0, e, nb) : e \in Energies, nb \in NeighborMaps} \cup Malformed

\* the streams of at most n lines over L
Streams(L, n) == UNION {[1..k -> L] : k \in 0..n}

NoFile == [exists |-> FALSE]

File(t) == [exists |-> TRUE, text |-> t]

\* the memory a run of three turns leaves
Memory3 == [turns_played |-> 3, positions_visited |-> <<0, 1, 0>>,
            peaceful_rests |-> 2, defensive_attacks |-> 1]

\* the memory a run of 25 turns leaves: positions_visited is full
Memory25 == [turns_played |-> Capacity + 5,
             positions_visited |-> [i \in 1..Capacity |-> i + 1],
             replications_made |-> 8, emergency_replications |-> 1,
             defensive_attacks |-> 6, peaceful_rests |-> 9]

\* a memory file with a key the agent never writes
MemoryForeign == [turns_played |-> 2, foo |-> 7]

Files == { NoFile,
           File(Unparsable),
           File([json |-> "array", elements |-> <<>>]),
           File(json_dump(Memory3)),
           File(json_dump(Memory25)),
           File(json_dump(MemoryForeign)) }

----------------------------------------------------------------------------
(* main *)

TypeOK ==
    /\ pc \in {"load", "read", "decide", "save", "print", "except", "done"}
    /\ nread \in 0..Len(stdin)
    /\ pc # "load" => memory.type \in {"dict", "list"}

\* save_memory has not been called in this process
NotSaved == [turn |-> 0, outcome |-> "none"]

InitWith(streams, files) ==
    /\ pc = "load"
    /\ stdin \in streams
    /\ nread = 0
    /\ world_state = None
    /\ memory = None
    /\ action = None
    /\ err = ""
    /\ disk \in files
    /\ stdout = <<>>
    /\ saved = NotSaved
    /\ previous = None

\* line 74
Load ==
    /\ pc = "load"
    /\ memory' = load_memory(disk)
    /\ pc' = "read"
    /\ UNCHANGED <<stdin, nread, world_state, action, err, disk, stdout, saved, previous>>

\* line 77 at end of stream: the loop and main end
ReadEOF ==
    /\ pc = "read"
    /\ nread = Len(stdin)
    /\ pc' = "done"
    /\ UNCHANGED <<stdin, nread, world_state, memory, action, err, disk, stdout, saved, previous>>

\* lines 77-78: the next line is read and decoded
ReadLine ==
    /\ pc = "read"
    /\ nread < Len(stdin)
    /\ nread' = nread + 1
    /\ LET line == stdin[nread + 1]
       IN  IF line.text = "json"
           THEN /\ world_state' = line.value
                /\ pc' = "decide"
                /\ err' = err
           ELSE /\ err' = "Expecting value: line 1 column 1 (char 0)"
                /\ pc' = "except"
                /\ world_state' = world_state
    /\ UNCHANGED <<stdin, memory, action, disk, stdout, saved, previous>>

\* line 80 with line 81 left out: the action is printed, the memory never saved
Decide_without_save ==
    /\ pc = "decide"
    /\ LET r == choose_action(world_state, memory)
       IN  /\ memory' = r.memory
           /\ IF r.raised
              THEN /\ err' = r.error
                   /\ pc' = "except"
                   /\ action' = action
              ELSE /\ action' = r.action
                   /\ pc' = "print"
                   /\ err' = err
    /\ UNCHANGED <<stdin, nread, world_state, disk, stdout, saved, previous>>

\* line 80
Decide ==
    /\ pc = "decide"
    /\ LET r == choose_action(world_state, memory)
       IN  /\ memory' = r.memory
           /\ IF r.raised
              THEN /\ err' = r.error
                   /\ pc' = "except"
                   /\ action' = action
              ELSE /\ action' = r.action
                   /\ pc' = "save"
                   /\ err' = err
    /\ UNCHANGED <<stdin, nread, world_state, disk, stdout, saved, previous>>

\* line 81 with save_memory's try/except left out: a failing save raises
Save_unsuppressed ==
    /\ pc = "save"
    /\ \E outcome \in SaveOutcomes :
          /\ disk' = save_memory(disk, memory, outcome)
          /\ saved' = [turn |-> nread, outcome |-> outcome]
          /\ pc' = IF outcome = "written" THEN "print" ELSE "except"
          /\ err' = IF outcome = "written" THEN err
                    ELSE IF outcome = "open_fails" THEN "[Errno 2] No such file or directory"
                    ELSE "[Errno 27] File too large"
    /\ UNCHANGED <<stdin, nread, world_state, memory, action, stdout, previous>>

\* line 81: save_memory returns whatever its outcome
Save ==
    /\ pc = "save"
    /\ \E outcome \in SaveOutcomes :
          /\ disk' = save_memory(disk, memory, outcome)
          /\ saved' = [turn |-> nread, outcome |-> outcome]
    /\ pc' = "print"
    /\ UNCHANGED <<stdin, nread, world_state, memory, action, err, stdout, previous>>

\* lines 83-86
Emit ==
    /\ pc = "print"
    /\ stdout' = Append(stdout, action)
    /\ pc' = "read"
    /\ UNCHANGED <<stdin, nread, world_state, memory, action, err, disk, saved, previous>>

\* the fallback action of line 90; message is "Error: " followed by str(e)
Fallback(e) == [action |-> "rest", message |-> <<"Error: ", e>>]

\* lines 88-91 with the memory saved by the handler too
Except_saves ==
    /\ pc = "except"
    /\ stdout' = Append(stdout, Fallback(err))
    /\ disk' = save_memory(disk, memory, "written")
    /\ pc' = "done"
    /\ UNCHANGED <<stdin, nread, world_state, memory, action, err, saved, previous>>

\* lines 88-91: the handler is outside the loop, main ends after it
Except ==
    /\ pc = "except"
    /\ stdout' = Append(stdout, Fallback(err))
    /\ pc' = "done"
    /\ UNCHANGED <<stdin, nread, world_state, memory, action, err, disk, saved, previous>>

Next == Load \/ ReadEOF \/ ReadLine \/ Decide \/ Save \/ Emit \/ Except

\* streams of at most MaxLines lines over Lines
Init == InitWith(Streams(Lines, MaxLines), Files)

Spec == Init /\ [][Next]_vars

\* one line, every observation within the bounds
InitDecide == InitWith(Streams(AllLines, 1), Files)

SpecDecide == InitDecide /\ [][Next]_vars

\* the shapes (energy, neighbors) a long walk cycles through
Shapes == << <<3, <<Nb("N", 5), Nb("S", 3)>> >>,
             <<1, <<>> >>,
             <<5, <<Nb("N", 5), Nb("S", 3)>> >>,
             <<10, <<Nb("N", 10)>> >>,
             <<0, <<Nb("N", 0)>> >> >>

\* the position of the i-th observation of a walk: the agent stays, moves on
\* to a new position every turn, or goes round three positions
WalkPosition(walk, i) ==
    IF walk = "stay" THEN 7 ELSE IF walk = "line" THEN i ELSE i % 3

WalkLine(walk, i) ==
    Obs(WalkPosition(walk, i), Shapes[(i % Len(Shapes)) + 1][1], Shapes[(i % Len(Shapes)) + 1][2])

\* walks of Capacity - 1 to RingTurns observations, and the same followed by a malformed line
RingStreams ==
    LET walks == {[i \in 1..n |-> WalkLine(w, i)] :
                     w \in {"stay", "line", "loop"}, n \in (Capacity - 1)..RingTurns}
    IN  walks \cup {Append(s, m) : s \in walks, m \in Malformed}

\* long walks, from an empty memory
InitRing == InitWith(RingStreams, {NoFile, File(Unparsable)})

SpecRing == InitRing /\ [][Next]_vars

\* the same streams, from an empty memory: no memory file, or one that does not parse
FreshFiles == {NoFile, File(Unparsable)}

InitFresh == InitWith(Streams(Lines, MaxLines), FreshFiles)

SpecFresh == InitFresh /\ [][Next]_vars

\* what a restarted process is given to read
RestartStreams ==
    Streams({Obs(0, 1, <<>>), Obs(1, 5, <<Nb("N", 5), Nb("S", 3)>>), Garbage}, 1)

\* main has ended and the simulator starts the agent again, with the same
\* AGENT_ID (the same MEMORY_FILE) and a new input stream; once.
Restart ==
    /\ pc = "done"
    /\ previous = None
    /\ previous' = [memory |-> memory,
                    turns |-> IF err = "" THEN nread ELSE nread - 1,
                    saved |-> saved,
                    err |-> err]
    /\ pc' = "load"
    /\ stdin' \in RestartStreams
    /\ nread' = 0
    /\ world_state' = None
    /\ memory' = None
    /\ action' = None
    /\ err' = ""
    /\ stdout' = <<>>
    /\ saved' = NotSaved
    /\ disk' = disk

NextRestart == Next \/ Restart

\* a first process from an empty memory, then a second one
SpecRestart == InitFresh /\ [][NextRestart]_vars

----------------------------------------------------------------------------
(* Vocabulary of the properties, stated on the observation itself *)

CounterKeys == {"replications_made", "emergency_replications", "defensive_attacks", "peaceful_rests"}

WellFormed(ws) ==
    /\ DOMAIN ws = {"position", "energy", "neighbors"}
    /\ ws.energy \in Nat
    /\ \A i \in 1..Len(ws.neighbors) : DOMAIN ws.neighbors[i].info = {"energy"}

\* main is about to call choose_action on a well-formed observation and a dict
Deciding == pc = "decide" /\ WellFormed(world_state) /\ memory.type = "dict"

EnergyOf(ws, i) == ws.neighbors[i].info.energy

\* the neighbors whose energy is at least the agent's
ThreatSet(ws) == {i \in 1..Len(ws.neighbors) : EnergyOf(ws, i) >= ws.energy}

\* the live neighbors whose energy is at least the agent's less 2
ThreateningSet(ws) ==
    {i \in 1..Len(ws.neighbors) : EnergyOf(ws, i) > 0 /\ EnergyOf(ws, i) >= ws.energy - 2}

Emergency(ws) == Cardinality(ThreatSet(ws)) >= 2 /\ ws.energy <= 4

Counter(mem, k) == get(mem.items, k, 0)

IsAction(a) ==
    \/ DOMAIN a = {"action"} /\ a.action \in {"rest", "replicate"}
    \/ DOMAIN a = {"action", "target"} /\ a.action = "attack" /\ a.target \in Directions

IsFallback(a) ==
    DOMAIN a = {"action", "message"} /\ a.action = "rest" /\ a.message[1] = "Error: "

\* the number of turns whose decision is complete
Turns == IF pc = "decide" THEN nread - 1 ELSE nread

----------------------------------------------------------------------------
(* Properties *)

\* C1: for every well-formed observation and every memory, choose_action
\* returns one action (none of its branches leaves it unset) and a memory
\* whose turns_played is the input's (0 when absent) plus 1.
C1_OneActionAndTurnCounted ==
    [][Deciding =>
          /\ pc' = "save"
          /\ IsAction(action')
          /\ memory'.type = "dict"
          /\ "turns_played" \in DOMAIN memory'.items
          /\ memory'.items["turns_played"] = Counter(memory, "turns_played") + 1]_vars

C1_Witness ==
    /\ pc = "save"
    /\ disk = File(json_dump(Memory25))
    /\ memory.items["turns_played"] = Capacity + 6
    /\ action = [action |-> "attack", target |-> "S"]

\* C2: positions_visited never has more than 20 entries; from an empty
\* memory, after n turns it holds the positions of the last min(n, 20)
\* observations, oldest first, so after more than 20 turns those of the
\* most recent 20.
C2_Last20Positions ==
    (pc \in {"read", "decide", "save", "print", "done"} /\ err = "" /\ Turns >= 1) =>
        LET pv == memory.items["positions_visited"]
            n  == Turns
        IN  /\ Len(pv) <= 20
            /\ Len(pv) = IF n <= 20 THEN n ELSE 20
            /\ \A i \in 1..Len(pv) : pv[i] = stdin[n - Len(pv) + i].value.position

C2_Witness ==
    /\ pc = "print"
    /\ Turns = 22
    /\ memory.items["positions_visited"] = [i \in 1..20 |-> i + 2]

\* C3: when main has ended, one action has been printed for every line of
\* stdin, each a normal action or the fallback rest with a message.
C3_OneActionPerLine ==
    pc = "done" =>
        /\ Len(stdout) = Len(stdin)
        /\ \A k \in 1..Len(stdout) : IsAction(stdout[k]) \/ IsFallback(stdout[k])

\* C4: a malformed line is answered by the fallback action and the loop goes
\* on: main ends only when every line has been read, and every malformed
\* line has its fallback action.
C4_LoopContinuesAfterMalformed ==
    pc = "done" =>
        /\ nread = Len(stdin)
        /\ \A k \in 1..Len(stdin) :
              stdin[k] \in Malformed => k <= Len(stdout) /\ IsFallback(stdout[k])

\* C5: with two threats or more and energy 3 or 4 the action is replicate,
\* emergency_replications grows by 1 and the other three counters keep
\* their values.
C5_EmergencyReplicate ==
    [][(Deciding /\ Cardinality(ThreatSet(world_state)) >= 2
                 /\ world_state.energy >= 3 /\ world_state.energy <= 4) =>
          /\ action' = [action |-> "replicate"]
          /\ Counter(memory', "emergency_replications")
                = Counter(memory, "emergency_replications") + 1
          /\ \A k \in CounterKeys \ {"emergency_replications"} :
                /\ Counter(memory', k) = Counter(memory, k)
                /\ k \in DOMAIN memory'.items <=> k \in DOMAIN memory.items]_vars

C5_Witness ==
    /\ pc = "save"
    /\ Cardinality(ThreatSet(world_state)) = 2
    /\ world_state.energy = 4
    /\ action = [action |-> "replicate"]
    /\ disk = File(json_dump(Memory3))
    /\ memory.items = [turns_played |-> 4, positions_visited |-> <<0, 1, 0, 0>>,
                       peaceful_rests |-> 2, defensive_attacks |-> 1,
                       emergency_replications |-> 1]

\* C6: with energy 10 or more the action is replicate and replications_made
\* grows by 1, whatever the neighbors.
C6_SafeGrowthReplicate ==
    [][(Deciding /\ world_state.energy >= 10) =>
          /\ action' = [action |-> "replicate"]
          /\ Counter(memory', "replications_made") = Counter(memory, "replications_made") + 1]_vars

C6_Witness ==
    /\ pc = "save"
    /\ world_state.energy = 10
    /\ Cardinality(ThreatSet(world_state)) = 2
    /\ action = [action |-> "replicate"]
    /\ disk = File(json_dump(Memory25))
    /\ memory.items["replications_made"] = 9

\* C7: in the defensive branch with some threatening neighbor, the action is
\* attack, its target is the first neighbor, in iteration order, of least
\* energy among the threatening ones, and defensive_attacks grows by 1.
C7_AttackWeakestThreatening ==
    [][(Deciding /\ ~Emergency(world_state) /\ world_state.energy < 10
                 /\ ThreatSet(world_state) # {} /\ ThreateningSet(world_state) # {}) =>
          /\ DOMAIN action' = {"action", "target"}
          /\ action'.action = "attack"
          /\ \E i \in ThreateningSet(world_state) :
                /\ action'.target = world_state.neighbors[i].dir
                /\ \A j \in ThreateningSet(world_state) :
                      /\ EnergyOf(world_state, i) <= EnergyOf(world_state, j)
                      /\ j < i => EnergyOf(world_state, i) < EnergyOf(world_state, j)
          /\ Counter(memory', "defensive_attacks") = Counter(memory, "defensive_attacks") + 1]_vars

\* the example of the specification: neighbors {N: 5, S: 3}, energy 5, target S
C7_Witness ==
    /\ pc = "save"
    /\ world_state.energy = 5
    /\ world_state.neighbors = <<Nb("N", 5), Nb("S", 3)>>
    /\ action = [action |-> "attack", target |-> "S"]
    /\ disk = NoFile
    /\ memory.items["defensive_attacks"] = 1

\* C8: with no threat and energy below 10 the action is rest and
\* peaceful_rests grows by 1.
C8_PeacefulRest ==
    [][(Deciding /\ ThreatSet(world_state) = {} /\ world_state.energy < 10) =>
          /\ action' = [action |-> "rest"]
          /\ Counter(memory', "peaceful_rests") = Counter(memory, "peaceful_rests") + 1]_vars

C8_Witness ==
    /\ pc = "save"
    /\ world_state.energy = 1
    /\ world_state.neighbors = <<>>
    /\ action = [action |-> "rest"]
    /\ disk = NoFile
    /\ memory.items["peaceful_rests"] = 1

\* C9: from one step of main to the next, turns_played and the four branch
\* counters never decrease.
C9_CountersNeverDecrease ==
    [][(pc # "load" /\ memory.type = "dict") =>
          \A k \in CounterKeys \cup {"turns_played"} :
              Counter(memory', k) >= Counter(memory, k)]_vars

C9_Witness ==
    /\ pc = "print"
    /\ nread = 2
    /\ disk = File(json_dump(Memory3))
    /\ memory.items["turns_played"] = 5
    /\ memory.items["peaceful_rests"] = 3
    /\ memory.items["defensive_attacks"] = 2

\* the branch of choose_action that counter k names, given the observation
\* and the action chosen
BranchOf(k, ws, a) ==
    IF k = "emergency_replications"
    THEN Emergency(ws) /\ ws.energy >= 3 /\ a = [action |-> "replicate"]
    ELSE IF k = "replications_made"
    THEN ~Emergency(ws) /\ ws.energy >= 10 /\ a = [action |-> "replicate"]
    ELSE IF k = "defensive_attacks"
    THEN ~Emergency(ws) /\ ws.energy < 10 /\ ThreatSet(ws) # {} /\ a.action = "attack"
    ELSE ~Emergency(ws) /\ ws.energy < 10 /\ ThreatSet(ws) = {} /\ a = [action |-> "rest"]

\* C10: in a turn at most one of the four branch counters changes; the one
\* that changes grows by exactly 1 and is the one named by the branch taken.
C10_CounterOfItsBranch ==
    [][(pc # "load" /\ memory.type = "dict") =>
          LET changed == {k \in CounterKeys : Counter(memory', k) # Counter(memory, k)}
          IN  /\ Cardinality(changed) <= 1
              /\ \A k \in changed :
                    /\ pc = "decide" /\ pc' = "save"
                    /\ Counter(memory', k) = Counter(memory, k) + 1
                    /\ BranchOf(k, world_state, action')]_vars

\* an attack: defensive_attacks alone has changed
C10_Witness ==
    /\ pc = "save"
    /\ action.action = "attack"
    /\ disk = File(json_dump(Memory3))
    /\ Counter(memory, "defensive_attacks") = Memory3["defensive_attacks"] + 1
    /\ \A k \in CounterKeys \ {"defensive_attacks"} : Counter(memory, k) = get(Memory3, k, 0)

\* C11: load_memory hands main a mapping whatever the memory file holds, and
\* the empty mapping when the file is missing or is not a JSON object.
C11_LoadedMemoryIsMapping ==
    (pc = "read" /\ nread = 0) =>
        /\ memory.type = "dict"
        /\ (~disk.exists \/ disk.text.json # "object") => memory.items = EmptyDict

\* the positions of the first n lines of stdin
PositionsRead(n) == [i \in 1..n |-> stdin[i].value.position]

\* the latest call of save_memory failed, at open() or after it
SaveFailed(sv) == sv.outcome \in {"open_fails", "write_fails"}

\* C12: a failing save_memory changes nothing in main: the action of the
\* turn is printed, the loop goes on, and the next decision starts from the
\* memory of the turn whose save failed (from an empty memory at start:
\* turns_played counts every line read, positions_visited holds every position).
\* The file is left as it was when open() fails, and unparsable when the
\* failure comes after open().
C12_SaveFailureSuppressed ==
    [][/\ pc = "save" =>
             /\ pc' = "print" /\ memory' = memory /\ action' = action /\ err' = err
             /\ saved'.outcome = "open_fails" => disk' = disk
             /\ saved'.outcome = "write_fails" =>
                   disk'.exists /\ load_memory(disk') = PyDict(EmptyDict)
       /\ (pc = "print" /\ SaveFailed(saved)) =>
             pc' = "read" /\ IsAction(action) /\ stdout' = Append(stdout, action)
       /\ (Deciding /\ nread >= 2 /\ saved.turn = nread - 1 /\ SaveFailed(saved)) =>
             /\ memory'.items["turns_played"] = nread
             /\ memory'.items["positions_visited"] = PositionsRead(nread)
             /\ memory'.items["turns_played"]
                   > Counter(load_memory(disk), "turns_played") + 1]_vars

\* the third turn is decided after the save of the second one failed in its
\* write, which emptied the file
C12_Witness ==
    /\ pc = "save"
    /\ nread = 3
    /\ saved = [turn |-> 2, outcome |-> "write_fails"]
    /\ disk = File(Unparsable)
    /\ Len(stdout) = 2
    /\ memory.items["turns_played"] = 3

\* C13: the memory file written by a save_memory that succeeds is read back
\* by load_memory as a dict equal to the one saved, key for key.
C13_SaveLoadRoundTrip ==
    [][(pc = "save" /\ saved'.outcome = "written") =>
          /\ disk'.exists
          /\ load_memory(disk').type = "dict"
          /\ DOMAIN load_memory(disk').items = DOMAIN memory.items
          /\ \A k \in DOMAIN memory.items :
                load_memory(disk').items[k] = memory.items[k]]_vars

C13_Witness ==
    /\ pc = "print"
    /\ saved.outcome = "written"
    /\ memory.items["turns_played"] = Capacity + 6
    /\ Len(memory.items["positions_visited"]) = Capacity
    /\ DOMAIN memory.items = {MemoryKeys[i] : i \in 1..Len(MemoryKeys)}
    /\ load_memory(disk) = memory

\* the process before this one completed n >= 1 turns and its last save succeeded
PreviousSaved ==
    /\ previous # None
    /\ previous.turns >= 1
    /\ previous.saved = [turn |-> previous.turns, outcome |-> "written"]

\* C14: when a process ends after n turns, the last of them saved, the file
\* holds its memory; the process started next loads that memory, and its
\* first turn gives turns_played = n + 1, counters no lower than before and
\* positions_visited extended by the new position.
C14_MemoryOutlivesProcess ==
    /\ (pc = "done" /\ err = "" /\ nread >= 1
           /\ saved = [turn |-> nread, outcome |-> "written"]) =>
          disk.exists /\ load_memory(disk) = memory
    /\ PreviousSaved =>
          /\ (pc = "read" /\ nread = 0) =>
                /\ memory.type = "dict"
                /\ memory.items["turns_played"] = previous.turns
                /\ previous.err = "" => memory = previous.memory
          /\ (pc \in {"save", "print"} /\ nread = 1) =>
                /\ memory.items["turns_played"] = previous.turns + 1
                /\ previous.err = "" =>
                      /\ \A k \in CounterKeys : Counter(memory, k) >= Counter(previous.memory, k)
                      /\ memory.items["positions_visited"]
                            = last(Append(previous.memory.items["positions_visited"],
                                          world_state.position), 20)

\* a second process, after a first one of two turns, has decided its first turn
C14_Witness ==
    /\ PreviousSaved
    /\ previous.turns = 2
    /\ previous.err = ""
    /\ pc = "print"
    /\ nread = 1
    /\ memory.items["turns_played"] = 3
    /\ Len(memory.items["positions_visited"]) = 3

\* C15: in a turn the steps come in the order read, decide, save, print:
\* while line k is decided and saved its action is not yet printed; when it
\* is printed save_memory has been called for this turn (and, if it
\* succeeded, the file holds the turn's memory); line k + 1 is read only
\* with k actions printed.
C15_ReadDecideSaveEmit ==
    /\ pc \in {"decide", "save"} => Len(stdout) = nread - 1 /\ saved.turn < nread
    /\ pc = "print" =>
          /\ Len(stdout) = nread - 1
          /\ saved.turn = nread
          /\ saved.outcome = "written" => load_memory(disk) = memory
    /\ pc = "read" =>
          /\ Len(stdout) = nread
          /\ nread >= 1 => saved.turn = nread /\ stdout[nread] = action

C15_Witness ==
    /\ pc = "read"
    /\ nread = 2
    /\ Len(stdout) = 2
    /\ saved = [turn |-> 2, outcome |-> "written"]
    /\ load_memory(disk) = memory
    /\ stdout[2] = [action |-> "attack", target |-> "S"]

\* no counter of mem2 differs from mem's
CountersKept(mem, mem2) == \A k \in CounterKeys : Counter(mem2, k) = Counter(mem, k)

\* what the defensive-attack branch or the default branch makes of ws
DefensiveOrDefaultOutcome(ws, mem, mem2, a) ==
    IF ThreatSet(ws) # {}
    THEN IF ThreateningSet(ws) # {}
         THEN /\ a.action = "attack"
              /\ Counter(mem2, "defensive_attacks") = Counter(mem, "defensive_attacks") + 1
         ELSE a = [action |-> "rest"] /\ CountersKept(mem, mem2)
    ELSE /\ a = [action |-> "rest"]
         /\ Counter(mem2, "peaceful_rests") = Counter(mem, "peaceful_rests") + 1

\* C17 as stated: with energy 0 neither the emergency nor the safe-growth
\* branch is taken, the defensive-attack or the default branch decides.
C17_ZeroEnergySkipsEmergency ==
    [][(Deciding /\ world_state.energy = 0) =>
          /\ ~emergency(world_state.neighbors, world_state.energy)
          /\ ~safe_growth(world_state.energy)
          /\ DefensiveOrDefaultOutcome(world_state, memory, memory', action')]_vars

\* C17 amended: with energy 0 the safe-growth branch is never taken and
\* replicate is never chosen; the emergency branch is taken exactly when two
\* neighbors or more are threats, and ends in rest with no counter changed;
\* otherwise the defensive-attack or the default branch decides.
C17_ZeroEnergyBranches ==
    [][(Deciding /\ world_state.energy = 0) =>
          /\ ~safe_growth(world_state.energy)
          /\ action' # [action |-> "replicate"]
          /\ IF Cardinality(ThreatSet(world_state)) >= 2
             THEN /\ emergency(world_state.neighbors, world_state.energy)
                  /\ action' = [action |-> "rest"]
                  /\ CountersKept(memory, memory')
             ELSE /\ ~emergency(world_state.neighbors, world_state.energy)
                  /\ DefensiveOrDefaultOutcome(world_state, memory, memory', action')]_vars

\* energy 0 and two neighbors: the emergency branch rests
C17_Witness ==
    /\ pc = "save"
    /\ world_state.energy = 0
    /\ world_state.neighbors = <<Nb("N", 5), Nb("S", 5)>>
    /\ action = [action |-> "rest"]
    /\ disk = File(json_dump(Memory3))
    /\ CountersKept(PyDict(Memory3), memory)

\* the defensive-attack branch is reached
DefensiveReached(ws) == ~Emergency(ws) /\ ws.energy < 10 /\ ThreatSet(ws) # {}

\* C18 as stated: in the defensive-attack branch the threatening subset is
\* never empty, the fallback to rest is never taken.
C18_FallbackUnreachable ==
    [][(Deciding /\ DefensiveReached(world_state)) =>
          /\ threatening_neighbors(world_state.neighbors, world_state.energy) # <<>>
          /\ action'.action = "attack"]_vars

\* C18 amended: in the defensive-attack branch the threatening subset is
\* empty, and the fallback to rest taken, exactly when the agent's energy
\* is 0 and every threat has energy 0; with energy 1 or more it never is.
C18_FallbackOnlyAtZeroEnergy ==
    [][(Deciding /\ DefensiveReached(world_state)) =>
          IF /\ world_state.energy = 0
             /\ \A i \in ThreatSet(world_state) : EnergyOf(world_state, i) = 0
          THEN /\ threatening_neighbors(world_state.neighbors, world_state.energy) = <<>>
               /\ action' = [action |-> "rest"]
               /\ CountersKept(memory, memory')
          ELSE /\ threatening_neighbors(world_state.neighbors, world_state.energy) # <<>>
               /\ action'.action = "attack"]_vars

\* energy 0 and one neighbor of energy 0: the fallback rest, no counter
C18_Witness ==
    /\ pc = "save"
    /\ world_state.energy = 0
    /\ world_state.neighbors = <<Nb("N", 0)>>
    /\ action = [action |-> "rest"]
    /\ disk = NoFile
    /\ DOMAIN memory.items = {"turns_played", "positions_visited"}

\* C19: a turn that fails writes nothing: the file changes only in the save
\* of a turn whose decision returned, and from the exception to the end of
\* main neither the file nor the record of the latest save changes; the file
\* then holds the memory of the last turn saved, one turn behind the
\* in-process memory when choose_action failed after its bookkeeping.
C19_FailedTurnWritesNothing ==
    [][/\ disk' # disk =>
             /\ pc = "save" /\ err = ""
             /\ saved'.turn = nread /\ saved'.outcome \in {"written", "write_fails"}
       /\ (pc = "except" \/ pc' = "except") =>
             /\ disk' = disk
             /\ saved' = saved
             /\ saved'.turn < nread'
       /\ (pc = "except" /\ memory.type = "dict"
              /\ saved = [turn |-> nread - 1, outcome |-> "written"]) =>
             /\ Counter(memory, "turns_played") - Counter(load_memory(disk'), "turns_played") \in {0, 1}
             /\ Len(stdout') = nread
             /\ IsFallback(stdout'[nread])]_vars

\* the second turn failed after its bookkeeping; the file is that of turn 1
C19_Witness ==
    /\ pc = "done"
    /\ err = "'energy'"
    /\ nread = 2
    /\ saved = [turn |-> 1, outcome |-> "written"]
    /\ memory.items["turns_played"] = 2
    /\ load_memory(disk).items["turns_played"] = 1
    /\ IsFallback(stdout[2])

\* a turn on ws ends in a rest that no counter records
Uncounted(ws) ==
    \/ Emergency(ws) /\ ws.energy < 3
    \/ DefensiveReached(ws) /\ ThreateningSet(ws) = {}

CounterSum(mem) ==
    Counter(mem, "replications_made") + Counter(mem, "emergency_replications")
        + Counter(mem, "defensive_attacks") + Counter(mem, "peaceful_rests")

\* C20: from an empty memory, after n successful turns turns_played is n,
\* the four counters add up to at most n, and what is missing is the number
\* of turns that ended in a rest without a counter.
C20_CountersSumToTurns ==
    (pc \in {"read", "decide", "save", "print", "done"} /\ err = "") =>
        /\ Counter(memory, "turns_played") = Turns
        /\ CounterSum(memory) <= Counter(memory, "turns_played")
        /\ Counter(memory, "turns_played") - CounterSum(memory)
              = Cardinality({k \in 1..Turns : Uncounted(stdin[k].value)})

\* three turns, two of them rests without a counter
C20_Witness ==
    /\ pc = "read"
    /\ nread = 3
    /\ memory.items["turns_played"] = 3
    /\ CounterSum(memory) = 1
    /\ Cardinality({k \in 1..3 : Uncounted(stdin[k].value)}) = 2

====
